---- MODULE Spec2Model ----
(***************************************************************************)
(* The probing pipeline of api-hunter: the admission controller            *)
(* (probe/throttle.rs), the prober (probe/http_probe.rs), the streaming    *)
(* sinks (output/async_writer.rs, output/async_csv.rs) and the orchestrator*)
(* that drives them under one global deadline (runner.rs, run_scan).       *)
(*                                                                         *)
(* Spec       the whole pipeline: candidates, workers, throttle, sinks.    *)
(* SpecFair   the same with the fairness the tokio timers give.            *)
(* SpecRetry  probe_with_retries on its own, for every result its callee's *)
(*            signature allows (anyhow::Result<RawEvent>).                 *)
(***************************************************************************)
EXTENDS Integers, Sequences, FiniteSets, TLC

\* ------------------------------------------------------------------ bounds
\* Number of candidate URLs handed to the stream.
NumCands == 3
\* Largest --concurrency the model draws (u16 in the program).
MaxConcurrency == 2
\* Largest --per-host the model draws (u16 in the program).
MaxPerHost == 2
\* Capacity of each sink channel; 1024 in runner.rs:365/369, scaled down so
\* that a full channel is reachable with NumCands candidates.
ChanCap == 1

\* ------------------------------------------------------- program constants
\* cool_down_host(host, 1, 30): the reduced capacity.
CooldownLimit == 1
\* min(max(1, retries), 10): the hard cap on attempts.
RetryCap == 10
\* retries.unwrap_or(3) and the T3 timing template.
DefaultRetries == 3
\* cool_down_host(host, 1, 30): the cooldown window in seconds.
CooldownSecs == 30

Cands == 1..NumCands
Hosts == {"h1", "h2"}
Sinks == {"jsonl", "csv"}
\* HTTP statuses a server answers with in the model.
Statuses == {200, 429}

Min(a, b) == IF a <= b THEN a ELSE b
Max(a, b) == IF a >= b THEN a ELSE b
Range(s) == {s[i] : i \in 1..Len(s)}


VARIABLES
  cfg,        \* the scan configuration (read-only after Init)
  phase,      \* orchestrator: "Probing", "Draining", "Done" (drain over),
              \* then "Reported" (returned Ok) or "Failed" (returned Err)
  cut,        \* how Probing ended: "none", "completed", "deadline"
  drain,      \* how the drain wait ended: "none", "joined", "timeout"
  pc,         \* per candidate: the worker future's suspension point
  attempts,   \* per candidate: iterations of the retry loop started
  status,     \* per candidate: ev.status of the outcome (-1: no outcome yet)
  headResp,   \* per candidate: the HEAD reply kept while the GET is in flight
  hostSem,    \* per candidate: the Arc<Semaphore> get_host_semaphore returned
  per_host,   \* Throttle.per_host: host -> semaphore
  coolTasks,  \* spawned restoration tasks, each owning its cloned map
  cooled,     \* per host: cool_down_host returned and no restoration fired since
  txHolders,  \* owners of a sender of each channel: 0 (run_scan) and workers
  chan,       \* per sink: the items buffered in its mpsc channel
  sink,       \* per sink: "opening", "running", "done", "failed"
  file,       \* per sink: per candidate, the data records of it in the artifact
  wrErr,      \* per sink: some write_all returned Err
  sent,       \* per sink: candidates whose send returned Ok
  results,    \* per candidate, its events in the aggregate Vec<RawEvent>
  rt,         \* the retry loop in isolation (SpecRetry)
  wk,         \* one worker of the stream with its whole event (SpecWorker)
  rs,         \* a run's artifacts and their re-emission by --resume (SpecResume)
  sc          \* score_event called on its own by two workers (SpecScore)

vars == <<cfg, phase, cut, drain, pc, attempts, status, headResp, hostSem,
          per_host, coolTasks, cooled, txHolders, chan, sink, file, wrErr,
          sent, results, rt, wk, rs, sc>>

\* The units stepped on their own, which the pipeline leaves alone.
unitVars == <<rt, wk, rs, sc>>

\* --------------------------------------------------------------- throttle
\* An Arc<Semaphore>: identified by who created it, with its permit count.
Sem(kind, by, cap) == [kind |-> kind, by |-> by, cap |-> cap]
NoSem == Sem("none", 0, 0)

\* Variant: the global permit is kept until the event has been sent.
HoldsGlobalUntilSent(c) ==
  pc[c] \in {"wait_host", "head", "get", "send_jsonl", "send_csv"}

\* Worker states in which the future owns a global permit / a host permit.
HoldsGlobal(c) == pc[c] \in {"wait_host", "head", "get"}
HoldsHost(c) == pc[c] \in {"head", "get"}

\* Throttle::new: the global semaphore has global_limit permits.
GlobalAvail == cfg.concurrency - Cardinality({c \in Cands : HoldsGlobal(c)})

\* Variant: a slot taken from a host semaphore is never given back.
SemAvailNoRelease(s) ==
  LET host(c) == IF cfg.split /\ c % 2 = 0 THEN "h2" ELSE "h1"
  IN s.cap - Cardinality({c \in Cands : attempts[c] >= 1 /\ host(c) = host(s.by)})

\* Permits left in one host semaphore.
SemAvail(s) == s.cap - Cardinality({c \in Cands : HoldsHost(c) /\ hostSem[c] = s})

\* Variant: a new semaphore is created and inserted without the lookup.
GetHostSemaphoreAlwaysNew(map, host, by) ==
  LET s == Sem("lazy", by, cfg.per_host)
  IN [sem |-> s, map |-> [map EXCEPT ![host] = s]]

\* get_host_semaphore: the entry if there is one, else a new semaphore of
\* default_per_host permits, inserted.
GetHostSemaphore(map, host, by) ==
  IF map[host] # NoSem
    THEN [sem |-> map[host], map |-> map]
    ELSE LET s == Sem("lazy", by, cfg.per_host)
         IN [sem |-> s, map |-> [map EXCEPT ![host] = s]]

\* Variant: the reduced semaphore goes into the map acquire reads, while the
\* restoration still goes into the task's own map.
CoolDownHostShared(self_map, host, new_limit, by) ==
  LET replaced == [self_map EXCEPT ![host] = Sem("cool", by, new_limit)]
  IN [self_map |-> replaced,
      task |-> [host |-> host, by |-> by, map |-> replaced]]

\* cool_down_host: per_host_map is self.per_host.clone(), a copy of the
\* DashMap; the reduced semaphore is inserted into the copy, which the spawned
\* task then owns. self.per_host is what the call leaves behind.
CoolDownHost(self_map, host, new_limit, by) ==
  LET per_host_map == self_map
      replaced == [per_host_map EXCEPT ![host] = Sem("cool", by, new_limit)]
  IN [self_map |-> self_map,
      task |-> [host |-> host, by |-> by, map |-> replaced]]

\* The spawned task after its sleep: inserts a default semaphore into the map
\* it owns.
RestoreMap(t) == [t.map EXCEPT ![t.host] = Sem("restore", t.by, cfg.per_host)]

\* ----------------------------------------------------------------- prober
\* One HTTP reply: ok = FALSE for a network error or a timeout.
NoReply == [ok |-> FALSE, status |-> 0, ctype |-> FALSE]
Replies == {NoReply} \cup [ok : {TRUE}, status : Statuses, ctype : BOOLEAN]

\* probe_url_inner after the HEAD: status and content_type as the match left
\* them, and the condition of the partial GET.
HeadStatus(h) == IF h.ok THEN h.status ELSE 0
HeadCtype(h) == h.ok /\ h.ctype

\* Variant: the partial GET is only issued when the HEAD got no answer.
NeedGetOnlyOnFailure(h) == HeadStatus(h) = 0

NeedGet(h) ==
  \/ ~HeadCtype(h)
  \/ HeadStatus(h) = 405
  \/ HeadStatus(h) = 501
  \/ HeadStatus(h) = 0

\* probe_url_inner: the RawEvent it returns. It has no Err return: with both
\* requests failed the event keeps status 0.
ProbeUrlInner(h, g) ==
  IF NeedGet(h) /\ g.ok
    THEN [ok |-> TRUE, status |-> g.status, ctype |-> g.ctype]
    ELSE [ok |-> TRUE, status |-> HeadStatus(h), ctype |-> HeadCtype(h)]

\* Variant: the loop runs 0..=max_retries.
MaxRetriesOffByOne(retries) == Min(Max(1, retries), RetryCap) + 1

\* max_retries of probe_with_retries.
MaxRetries(retries) == Min(Max(1, retries), RetryCap)

\* Variant: every 429 and every status from 500 up cools the host down, in
\* aggressive mode too.
CooldownTriggerAnyMode(st, aggressive) == st = 429 \/ st >= 500

\* The cooldown condition of probe_with_retries on an Ok(ev).
CooldownTrigger(st, aggressive) ==
  (st = 429 \/ (st >= 500 /\ st < 600)) /\ ~aggressive

\* ------------------------------------------------------------ orchestrator
InProgress == {c \in Cands : pc[c] \in
                 {"wait_global", "wait_host", "head", "get", "send_jsonl", "send_csv"}}

\* Variant: the stream is buffered without a limit.
BufferHasRoomUnbounded == TRUE

\* buffer_unordered(concurrency): room for one more future.
BufferHasRoom == Cardinality(InProgress) < cfg.concurrency

\* stream::iter: the next candidate not yet pulled.
NextQueued(c) == pc[c] = "queued" /\ \A d \in Cands : d < c => pc[d] # "queued"

\* A scan run: n candidates, the configuration run_scan is called with, whether
\* the candidates sit on one host or alternate between two, and whether the
\* output directory can fail (open or write errors).
Configs ==
  [n : 0..NumCands, concurrency : 1..MaxConcurrency, per_host : 1..MaxPerHost,
   aggressive : BOOLEAN, retries : {DefaultRetries}, split : BOOLEAN,
   faults : BOOLEAN]

\* The runs the model draws, in three families: the longest candidate list on
\* one host with a reliable disk; a shorter list alternating between two hosts;
\* shorter lists, down to the empty one, with a failing disk.
Runs ==
  {r \in Configs :
     \/ r.n = NumCands /\ ~r.split /\ ~r.faults
     \/ r.n = NumCands - 1 /\ r.split /\ ~r.faults
     \/ r.n < NumCands /\ ~r.split /\ r.faults /\ r.aggressive}

\* extract_host(url) of candidate c.
HostOf(c) == IF cfg.split /\ c % 2 = 0 THEN "h2" ELSE "h1"

PipelineInit(r) ==
  /\ cfg = r
  /\ phase = IF cfg.n = 0 THEN "Draining" ELSE "Probing"
  /\ cut = IF cfg.n = 0 THEN "completed" ELSE "none"
  /\ drain = "none"
  /\ pc = [c \in Cands |-> IF c <= cfg.n THEN "queued" ELSE "none"]
  /\ attempts = [c \in Cands |-> 0]
  /\ status = [c \in Cands |-> -1]
  /\ headResp = [c \in Cands |-> NoReply]
  /\ hostSem = [c \in Cands |-> NoSem]
  /\ per_host = [h \in Hosts |-> NoSem]
  /\ coolTasks = {}
  /\ cooled = [h \in Hosts |-> FALSE]
  /\ txHolders = IF cfg.n = 0 THEN {} ELSE {0}
  /\ chan = [s \in Sinks |-> <<>>]
  /\ sink = [s \in Sinks |-> "opening"]
  /\ file = [s \in Sinks |-> [c \in Cands |-> 0]]
  /\ wrErr = [s \in Sinks |-> FALSE]
  /\ sent = [s \in Sinks |-> {}]
  /\ results = [c \in Cands |-> 0]

\* The retry loop is not stepped on its own in the pipeline.
RetryOff ==
  [pc |-> "off", cli |-> 0, retries |-> 0, b_max |-> 0, attempt |-> 0,
   backoff |-> 0, delays |-> <<>>]

\* No worker is stepped on its own in the pipeline.
WorkerOff == [pc |-> "off"]

\* No resume run is stepped in the pipeline.
ResumeOff == [pc |-> "off"]
ScoreOff == [pc |-> "off"]

Init ==
  /\ \E r \in Runs : PipelineInit(r)
  /\ rt = RetryOff /\ wk = WorkerOff /\ rs = ResumeOff /\ sc = ScoreOff

throttleVars == <<per_host, coolTasks, cooled>>
sinkVars == <<chan, sink, file, wrErr, sent>>
orchVars == <<phase, cut, drain, results>>

\* The stream pulls the next candidate and polls its future up to the global
\* acquire: the closure clones both senders, acquire() looks the host up.
Start(c) ==
  /\ phase = "Probing"
  /\ NextQueued(c)
  /\ BufferHasRoom
  /\ LET got == GetHostSemaphore(per_host, HostOf(c), c)
     IN /\ hostSem' = [hostSem EXCEPT ![c] = got.sem]
        /\ per_host' = got.map
  /\ pc' = [pc EXCEPT ![c] = "wait_global"]
  /\ txHolders' = txHolders \cup {c}
  /\ UNCHANGED <<cfg, attempts, status, headResp, coolTasks, cooled,
                 sinkVars, orchVars, unitVars>>

\* g.acquire_owned().await
AcquireGlobal(c) ==
  /\ pc[c] = "wait_global"
  /\ GlobalAvail > 0
  /\ pc' = [pc EXCEPT ![c] = "wait_host"]
  /\ UNCHANGED <<cfg, attempts, status, headResp, hostSem, throttleVars,
                 txHolders, sinkVars, orchVars, unitVars>>

\* host_sem.acquire_owned().await; the permit granted, probe_with_retries
\* starts its first iteration and the HEAD goes out.
AcquireHost(c) ==
  /\ pc[c] = "wait_host"
  /\ SemAvail(hostSem[c]) > 0
  /\ pc' = [pc EXCEPT ![c] = "head"]
  /\ attempts' = [attempts EXCEPT ![c] = 1]
  /\ UNCHANGED <<cfg, status, headResp, hostSem, throttleVars, txHolders,
                 sinkVars, orchVars, unitVars>>

\* Variant: the permit is moved into the event's scope and lives on while the
\* worker sends.
ProbeReturnedKeepingPermit(c, ev) ==
  /\ status' = [status EXCEPT ![c] = ev.status]
  /\ headResp' = [headResp EXCEPT ![c] = NoReply]
  /\ hostSem' = hostSem
  /\ pc' = [pc EXCEPT ![c] = "send_jsonl"]
  /\ IF CooldownTrigger(ev.status, cfg.aggressive)
       THEN LET cd == CoolDownHost(per_host, HostOf(c), CooldownLimit, c)
            IN /\ per_host' = cd.self_map
               /\ coolTasks' = coolTasks \cup {cd.task}
               /\ cooled' = [cooled EXCEPT ![HostOf(c)] = TRUE]
       ELSE UNCHANGED throttleVars

\* probe_with_retries on Ok(ev): the cooldown, then return Ok(ev); probe_url
\* returns and drops the permit; run_scan scores and annotates the event and
\* reaches tx_jsonl.send.
ProbeReturned(c, ev) ==
  /\ status' = [status EXCEPT ![c] = ev.status]
  /\ headResp' = [headResp EXCEPT ![c] = NoReply]
  /\ hostSem' = [hostSem EXCEPT ![c] = NoSem]
  /\ pc' = [pc EXCEPT ![c] = "send_jsonl"]
  /\ IF CooldownTrigger(ev.status, cfg.aggressive)
       THEN LET cd == CoolDownHost(per_host, HostOf(c), CooldownLimit, c)
            IN /\ per_host' = cd.self_map
               /\ coolTasks' = coolTasks \cup {cd.task}
               /\ cooled' = [cooled EXCEPT ![HostOf(c)] = TRUE]
       ELSE UNCHANGED throttleVars

\* The HEAD request resolves (reply, error or timeout).
HeadDone(c) ==
  /\ pc[c] = "head"
  /\ \E h \in Replies :
       IF NeedGet(h)
         THEN /\ pc' = [pc EXCEPT ![c] = "get"]
              /\ headResp' = [headResp EXCEPT ![c] = h]
              /\ UNCHANGED <<status, hostSem, throttleVars>>
         ELSE ProbeReturned(c, ProbeUrlInner(h, NoReply))
  /\ UNCHANGED <<cfg, attempts, txHolders, sinkVars, orchVars, unitVars>>

\* The partial GET resolves.
GetDone(c) ==
  /\ pc[c] = "get"
  /\ \E g \in Replies : ProbeReturned(c, ProbeUrlInner(headResp[c], g))
  /\ UNCHANGED <<cfg, attempts, txHolders, sinkVars, orchVars, unitVars>>

\* Variant: a channel whose receiver was dropped still queues.
ReceiverNeverGone(s) == FALSE

\* tx.send(ev.clone()).await on one channel: Err at once when the receiver is
\* gone, else the item is queued when there is room.
ReceiverGone(s) == sink[s] \in {"failed", "done"}
CanSend(s) == ReceiverGone(s) \/ Len(chan[s]) < ChanCap

\* Variant: the send is skipped.
SendSkipped(s, c) == UNCHANGED <<chan, sent>>

SendTo(s, c) ==
  IF ReceiverGone(s)
    THEN UNCHANGED <<chan, sent>>
    ELSE /\ chan' = [chan EXCEPT ![s] = Append(@, c)]
         /\ sent' = [sent EXCEPT ![s] = @ \cup {c}]

SendJsonl(c) ==
  /\ pc[c] = "send_jsonl"
  /\ CanSend("jsonl")
  /\ SendTo("jsonl", c)
  /\ pc' = [pc EXCEPT ![c] = "send_csv"]
  /\ UNCHANGED <<cfg, attempts, status, headResp, hostSem, throttleVars,
                 txHolders, sink, file, wrErr, orchVars, unitVars>>

\* The second send; the future then returns Some(ev), the stream yields it and
\* run_scan pushes it; with the last future finished the stream ends, the
\* timeout returns Ok and run_scan drops its senders.
SendCsv(c) ==
  /\ pc[c] = "send_csv"
  /\ CanSend("csv")
  /\ SendTo("csv", c)
  /\ pc' = [pc EXCEPT ![c] = "done"]
  /\ results' = [results EXCEPT ![c] = @ + 1]
  /\ IF \A d \in Cands \ {c} : pc[d] \in {"done", "none"}
       THEN /\ phase' = "Draining"
            /\ cut' = "completed"
            /\ txHolders' = {}
       ELSE /\ txHolders' = txHolders \ {c}
            /\ UNCHANGED <<phase, cut>>
  /\ UNCHANGED <<cfg, attempts, status, headResp, hostSem, throttleVars,
                 sink, file, wrErr, drain, unitVars>>

\* Variant: the futures are detached tasks that outlive the stream.
DroppedButDetached(p) == IF p \in {"done", "none"} THEN p ELSE IF p = "queued" THEN "abandoned" ELSE p

\* What dropping the stream does to one candidate: a finished future stays
\* finished, a queued candidate and a suspended future are gone.
Dropped(p) == IF p \in {"done", "none"} THEN p ELSE "abandoned"

\* tokio::time::timeout(scan_timeout, scan_fut) elapses: the stream and every
\* future in it are dropped, then run_scan drops its senders.
GlobalDeadline ==
  /\ phase = "Probing"
  /\ phase' = "Draining"
  /\ cut' = "deadline"
  /\ pc' = [c \in Cands |-> Dropped(pc[c])]
  /\ headResp' = [c \in Cands |-> NoReply]
  /\ hostSem' = [c \in Cands |-> NoSem]
  /\ txHolders' = {}
  /\ UNCHANGED <<cfg, attempts, status, throttleVars, sinkVars, drain,
                 results, unitVars>>

\* A restoration task wakes, inserts into its own map and ends.
Restore(t) ==
  /\ t \in coolTasks
  /\ LET ended == RestoreMap(t)
     IN coolTasks' = coolTasks \ {t}
  /\ cooled' = [cooled EXCEPT ![t.host] = FALSE]
  /\ UNCHANGED <<cfg, pc, attempts, status, headResp, hostSem, per_host,
                 txHolders, sinkVars, orchVars, unitVars>>

\* --------------------------------------------------------------- the sinks
\* OpenOptions::open succeeded (the csv sink then writes its header line).
SinkOpen(s) ==
  /\ sink[s] = "opening"
  /\ sink' = [sink EXCEPT ![s] = "running"]
  /\ UNCHANGED <<cfg, pc, attempts, status, headResp, hostSem, throttleVars,
                 txHolders, chan, file, wrErr, sent, orchVars, unitVars>>

\* OpenOptions::open failed: logged, the task ends and drops the receiver with
\* whatever it buffered.
SinkOpenFail(s) ==
  /\ cfg.faults
  /\ sink[s] = "opening"
  /\ sink' = [sink EXCEPT ![s] = "failed"]
  /\ chan' = [chan EXCEPT ![s] = <<>>]
  /\ UNCHANGED <<cfg, pc, attempts, status, headResp, hostSem, throttleVars,
                 txHolders, file, wrErr, sent, orchVars, unitVars>>

\* rx.recv() yields an item; write_all appends its record, or fails and is
\* logged.
SinkWrite(s) ==
  /\ sink[s] = "running"
  /\ chan[s] # <<>>
  /\ chan' = [chan EXCEPT ![s] = Tail(@)]
  /\ \E ok \in {TRUE, ~cfg.faults} :
       IF ok
         THEN /\ file' = [file EXCEPT ![s][Head(chan[s])] = @ + 1]
              /\ UNCHANGED wrErr
         ELSE /\ wrErr' = [wrErr EXCEPT ![s] = TRUE]
              /\ UNCHANGED file
  /\ UNCHANGED <<cfg, pc, attempts, status, headResp, hostSem, throttleVars,
                 txHolders, sink, sent, orchVars, unitVars>>

\* Variant: the loop ends as soon as the channel is empty (try_recv).
RecvNoneWhenEmpty(s) == chan[s] = <<>>

\* rx.recv() yields None: no sender left and nothing buffered.
RecvNone(s) == txHolders = {} /\ chan[s] = <<>>

\* The while-let loop ends: flush, and the task ends.
SinkClose(s) ==
  /\ sink[s] = "running"
  /\ RecvNone(s)
  /\ sink' = [sink EXCEPT ![s] = "done"]
  /\ UNCHANGED <<cfg, pc, attempts, status, headResp, hostSem, throttleVars,
                 txHolders, chan, file, wrErr, sent, orchVars, unitVars>>

\* --------------------------------------------------------------- the drain
SinkEnded(s) == sink[s] \in {"done", "failed"}

\* Variant: the join handles are dropped instead of awaited.
WritersNotAwaited == TRUE

\* _jh_jsonl.await then _jh_csv.await: both tasks have ended.
WritersJoined == \A s \in Sinks : SinkEnded(s)

\* Variant: the joins are awaited without a timeout.
DrainWaitUnbounded == FALSE

\* The joins are wrapped in tokio::time::timeout(5 s).
DrainWaitBounded == TRUE

\* Both join handles resolved inside the 5 s window.
DrainJoined ==
  /\ phase = "Draining"
  /\ WritersJoined
  /\ phase' = "Done"
  /\ drain' = "joined"
  /\ UNCHANGED <<cfg, pc, attempts, status, headResp, hostSem, throttleVars,
                 txHolders, sinkVars, cut, results, unitVars>>

\* The 5 s timeout around the joins elapses first.
DrainTimeout ==
  /\ phase = "Draining"
  /\ DrainWaitBounded
  /\ \E s \in Sinks : ~SinkEnded(s)
  /\ phase' = "Done"
  /\ drain' = "timeout"
  /\ UNCHANGED <<cfg, pc, attempts, status, headResp, hostSem, throttleVars,
                 txHolders, sinkVars, cut, results, unitVars>>

\* run_scan is past the wait for the writers.
DrainOver == phase \in {"Done", "Reported", "Failed"}

\* write_csv and write_top_txt of the final report succeed: the sorted
\* tabular file exists and run_scan goes on to return Ok.
ReportWritten ==
  /\ phase = "Done"
  /\ phase' = "Reported"
  /\ UNCHANGED <<cfg, pc, attempts, status, headResp, hostSem, throttleVars,
                 txHolders, sinkVars, cut, drain, results, unitVars>>

\* write_csv(&csv_path, &refs)? or write_top_txt(..)? fails: the error is
\* returned from run_scan and from main.
ReportFailed ==
  /\ cfg.faults
  /\ phase = "Done"
  /\ phase' = "Failed"
  /\ UNCHANGED <<cfg, pc, attempts, status, headResp, hostSem, throttleVars,
                 txHolders, sinkVars, cut, drain, results, unitVars>>

Next ==
  \/ \E c \in Cands : Start(c)
  \/ \E c \in Cands : AcquireGlobal(c)
  \/ \E c \in Cands : AcquireHost(c)
  \/ \E c \in Cands : HeadDone(c)
  \/ \E c \in Cands : GetDone(c)
  \/ \E c \in Cands : SendJsonl(c)
  \/ \E c \in Cands : SendCsv(c)
  \/ GlobalDeadline
  \/ \E t \in coolTasks : Restore(t)
  \/ \E s \in Sinks : SinkOpen(s)
  \/ \E s \in Sinks : SinkOpenFail(s)
  \/ \E s \in Sinks : SinkWrite(s)
  \/ \E s \in Sinks : SinkClose(s)
  \/ DrainJoined
  \/ DrainTimeout
  \/ ReportWritten
  \/ ReportFailed

Spec == Init /\ [][Next]_vars

\* The timers of run_scan fire, and run_scan is polled when its join handles
\* resolve. Nothing is assumed of the workers, the network or the disk.
SpecFair ==
  /\ Spec
  /\ WF_vars(GlobalDeadline)
  /\ WF_vars(DrainTimeout)
  /\ WF_vars(DrainJoined)

\* A step of the prober between the call of acquire and the return of the
\* probe: a semaphore grants a slot, or a request resolves.
ProbeStep ==
  \E c \in Cands :
    AcquireGlobal(c) \/ AcquireHost(c) \/ HeadDone(c) \/ GetDone(c)

\* The pipeline as Throttle::acquire's callers see it: a request in flight
\* resolves, so every granted permit is released, and a semaphore with a free
\* slot grants it to a waiter. Nothing is assumed of the timers or the sinks.
SpecAcquire == Spec /\ WF_vars(ProbeStep)

\* ------------------------------------------------- the retry loop, isolated
\* probe_with_retries as a unit: its callee returns anyhow::Result<RawEvent>,
\* and here either result may come back on any attempt. (In the pipeline above
\* probe_url_inner only ever returns Ok.)

\* Largest --retries value drawn (u8 in the program).
MaxCliRetries == 12
\* Largest -T value drawn; templates exist for 0..5, the rest is the default.
MaxTiming == 6
\* The largest value of the millisecond counters: stands for u64::MAX.
WordMax == 7

\* run_from_cli: the retries value run_scan is called with. The third field of
\* the timing template replaces the default 3; lite forces 1; then the cap.
TimingRetries(timing) ==
  CASE timing = 0 -> 1
    [] timing = 1 -> 2
    [] timing = 2 -> 2
    [] timing = 3 -> 3
    [] timing = 4 -> 3
    [] timing = 5 -> 1
    [] OTHER -> 3
EffectiveRetries(cli, timing, lite) ==
  LET retries_final == IF cli = DefaultRetries THEN TimingRetries(timing) ELSE cli
      retries == IF lite THEN 1 ELSE retries_final
  IN IF retries > RetryCap THEN RetryCap ELSE retries

\* Variant: wrapping_mul(2).
WrappingDouble(b) == (2 * b) % (WordMax + 1)

\* u64::saturating_mul(2)
SaturatingDouble(b) == IF 2 * b > WordMax THEN WordMax ELSE 2 * b

\* wait_ms = min(backoff, backoff_max_ms)
WaitMs(backoff, backoff_max) == Min(backoff, backoff_max)

\* run_scan calls probe_url with the retries value run_from_cli computed; the
\* loop has not started.
RetryCall(cli, timing, lite, b_init, b_max) ==
  [pc |-> "call", cli |-> cli,
   retries |-> EffectiveRetries(cli, timing, lite),
   b_max |-> b_max, attempt |-> 0, backoff |-> b_init,
   delays |-> <<>>]

IdleRun ==
  [n |-> 0, concurrency |-> 1, per_host |-> 1, aggressive |-> FALSE,
   retries |-> DefaultRetries, split |-> FALSE, faults |-> FALSE]

InitRetry ==
  /\ PipelineInit(IdleRun)
  /\ \E cli \in 0..MaxCliRetries, timing \in 0..MaxTiming, lite \in BOOLEAN,
        b_init \in 0..WordMax, b_max \in 0..WordMax :
        rt = RetryCall(cli, timing, lite, b_init, b_max)
  /\ wk = WorkerOff /\ rs = ResumeOff /\ sc = ScoreOff

pipelineVars == <<cfg, phase, cut, drain, pc, attempts, status, headResp,
                  hostSem, per_host, coolTasks, cooled, txHolders, chan, sink,
                  file, wrErr, sent, results>>

\* probe_with_retries entered: backoff = backoff_initial_ms.max(1), and attempt
\* 1 of the for loop calls probe_url_inner.
RetryEnter ==
  /\ rt.pc = "call"
  /\ rt' = [rt EXCEPT !.pc = "probing", !.attempt = 1,
                      !.backoff = Max(rt.backoff, 1)]
  /\ UNCHANGED <<pipelineVars, wk, rs, sc>>

\* Ok(ev) => return Ok(ev)
RetryOk ==
  /\ rt.pc = "probing"
  /\ rt' = [rt EXCEPT !.pc = "ok"]
  /\ UNCHANGED <<pipelineVars, wk, rs, sc>>

\* Err(e): the last attempt returns Err(e); any other sleeps wait_ms.
RetryErr ==
  /\ rt.pc = "probing"
  /\ rt' = IF rt.attempt >= MaxRetries(rt.retries)
             THEN [rt EXCEPT !.pc = "err"]
             ELSE [rt EXCEPT !.pc = "sleeping",
                             !.delays = Append(@, WaitMs(rt.backoff, rt.b_max))]
  /\ UNCHANGED <<pipelineVars, wk, rs, sc>>

\* The sleep is over: the backoff doubles and the loop goes round.
RetryWake ==
  /\ rt.pc = "sleeping"
  /\ rt' = [rt EXCEPT !.pc = "probing",
                      !.backoff = SaturatingDouble(@),
                      !.attempt = @ + 1]
  /\ UNCHANGED <<pipelineVars, wk, rs, sc>>

NextRetry == RetryEnter \/ RetryOk \/ RetryErr \/ RetryWake

SpecRetry == InitRetry /\ [][NextRetry]_vars

\* ------------------------------------------- one worker with its whole event
\* The closure run_scan maps over the candidates, for one candidate: the probe
\* exchange with everything a reply carries, the retry loop, the scorer, the
\* annotations and the two sends. The future can be dropped at any await.

\* HTTP statuses a server answers with here.
WStatuses == {200, 301, 401, 404, 405, 429, 500, 501, 599, 600}
\* The Content-Type header of a reply: absent, application/json, another type.
CTypes == {"none", "json", "html"}
\* The body of a GET reply: unreadable or not UTF-8, JSON text, JSON text with
\* a "data" or "errors" member, other text, and other text longer than 200
\* bytes whose byte 200 lies inside a multi-byte character.
Bodies == {"none", "json", "graphql", "text", "split"}

\* What the filter and score_event read of the URL string: it contains "/api/"
\* or "/v"; it contains token, auth, login or admin; its path ends in .css,
\* .woff, .png or .jpg; a query or fragment follows the path.
Urls == [api : BOOLEAN, keyword : BOOLEAN, ext : BOOLEAN, query : BOOLEAN]

\* lower.ends_with(ext) for one of the four extensions, on the whole string.
EndsStatic(url) == url.ext /\ ~url.query

\* The URLs is_api_candidate can let through: it returns false for a string
\* ending in a static extension.
Candidates == {url \in Urls : ~EndsStatic(url)}

WNoReply == [ok |-> FALSE, status |-> 0, ctype |-> "none", body |-> "none"]
HeadReplies ==
  {WNoReply} \cup [ok : {TRUE}, status : WStatuses, ctype : CTypes, body : {"none"}]
GetReplies ==
  {WNoReply} \cup [ok : {TRUE}, status : WStatuses, ctype : CTypes, body : Bodies]

\* A reply as the escalation condition reads it: is there a Content-Type.
Plain(r) == [ok |-> r.ok, status |-> r.status, ctype |-> r.ctype # "none"]

\* The RawEvent probe_url_inner builds from the HEAD reply and, when the GET
\* was issued, the GET reply: a GET that answered replaces status and
\* content_type and alone sets json_sample (the parsed value, or a "_sample"
\* object wrapping text that is not JSON) and is_graphql; score is left 0.
RawEvent(url, h, g) ==
  LET base == ProbeUrlInner(Plain(h), Plain(g))
      got == NeedGet(Plain(h)) /\ g.ok
  IN [url |-> url,
      status |-> base.status,
      content_type |-> IF got THEN g.ctype ELSE IF h.ok THEN h.ctype ELSE "none",
      json_sample |-> IF ~got THEN "none"
                      ELSE CASE g.body \in {"json", "graphql"} -> "parsed"
                             [] g.body = "text" -> "sample"
                             [] OTHER -> "none",
      is_graphql |-> got /\ g.body = "graphql",
      score |-> 0,
      notes |-> {}]
NoEvent == [status |-> -1]

\* &text[0..min(200, text.len())] on text that is not JSON: the slice panics
\* when its end is not a character boundary.
SamplePanics(h, g) == NeedGet(Plain(h)) /\ g.ok /\ g.body = "split"

\* The exchange behind the last probe_url_inner result: was the GET issued,
\* the GET reply, and the HEAD reply unless a GET that answered replaced it.
NoExchange == [issued |-> FALSE, head |-> WNoReply, get |-> WNoReply, n |-> 0]
Exchange(w, h, issued, g) ==
  [issued |-> issued, get |-> g, n |-> w.exch.n + 1,
   head |-> IF issued /\ g.ok THEN WNoReply ELSE h]

\* Variant: an exchange in which nothing answered is reported as an error.
InnerResultErrOnUnreachable(ev) == [ok |-> ev.status # 0, ev |-> ev]

\* Variant: an exchange answered with a 5xx is reported as an error.
InnerResultErrOn5xx(ev) == [ok |-> ev.status < 500, ev |-> ev]

\* probe_url_inner's return value: Ok(RawEvent {..}), on every path.
InnerResult(ev) == [ok |-> TRUE, ev |-> ev]

\* Variant: the keyword promotion comes before the status tiers.
ScoreEventKeywordFirst(e) ==
  LET s0 == IF e.url.keyword THEN 4 ELSE 5
      s1 == IF e.status >= 200 /\ e.status < 300
              THEN IF e.content_type # "none"
                     THEN IF e.content_type = "json" THEN 1
                          ELSE IF e.url.api THEN Min(s0, 2) ELSE s0
                     ELSE IF e.json_sample # "none" THEN 1 ELSE s0
              ELSE s0
      s2 == IF e.status = 401 \/ e.status = 403 THEN Min(s1, 3) ELSE s1
      s3 == IF e.status >= 300 /\ e.status < 400 THEN Min(s2, 4) ELSE s2
      s4 == IF e.status >= 500 THEN Max(6, s3) ELSE s3
  IN IF EndsStatic(e.url) THEN 99 ELSE s4

\* Variant: the scorer keeps a count of its calls and lets it into the score.
ScoreEventCounting(e) ==
  IF EndsStatic(e.url) THEN 99 ELSE 5 + Len(sc.log)

\* score_event
ScoreEvent(e) ==
  LET s0 == 5
      s1 == IF e.status >= 200 /\ e.status < 300
              THEN IF e.content_type # "none"
                     THEN IF e.content_type = "json" THEN 1
                          ELSE IF e.url.api THEN Min(s0, 2) ELSE s0
                     ELSE IF e.json_sample # "none" THEN 1 ELSE s0
              ELSE s0
      s2 == IF e.status = 401 \/ e.status = 403 THEN Min(s1, 3) ELSE s1
      s3 == IF e.status >= 300 /\ e.status < 400 THEN Min(s2, 4) ELSE s2
      s4 == IF e.status >= 500 THEN Max(6, s3) ELSE s3
      s5 == IF e.url.keyword THEN Max(1, s4 - 1) ELSE s4
  IN IF EndsStatic(e.url) THEN 99 ELSE s5

\* Variant: the event is sent as the prober returned it.
Unscored(ev) == ev

\* ev.score = score_event(&ev)
Scored(ev) == [ev EXCEPT !.score = ScoreEvent(ev)]

\* The notes run_scan pushes: the passive WAF block pattern.
Annotated(ev) ==
  IF ev.status \in {403, 406, 429}
    THEN [ev EXCEPT !.notes = @ \cup {"WAF:UnknownBlock"}]
    ELSE ev

\* t.cool_down_host(host, 1, 30)
CooldownCall == <<"h1", CooldownLimit, CooldownSecs>>

\* The worker before its future is first polled.
WorkerCall(aggressive, url, gone) ==
  [pc |-> "call", aggressive |-> aggressive, url |-> url, gone |-> gone,
   retries |-> DefaultRetries, head |-> WNoReply, ev |-> NoEvent,
   attempt |-> 0, sleeps |-> 0, cooldowns |-> <<>>, scoreCalls |-> 0,
   exch |-> NoExchange,
   out |-> [s \in Sinks |-> <<>>], ret |-> "pending"]

InitWorker ==
  /\ PipelineInit(IdleRun)
  /\ rt = RetryOff /\ rs = ResumeOff /\ sc = ScoreOff
  /\ \E aggressive \in BOOLEAN, url \in Candidates, gone \in [Sinks -> BOOLEAN] :
       wk = WorkerCall(aggressive, url, gone)

\* probe_with_retries on the result of one probe_url_inner call, and what
\* run_scan does with what probe_url returns, up to the first send. Ok(ev):
\* the cooldown if due, return Ok(ev); run_scan scores and annotates. Err on
\* the last attempt: return Err, run_scan logs and the future returns None.
\* Err before: sleep, double the backoff, next attempt.
WkLoop(w, res) ==
  IF res.ok
    THEN [w EXCEPT !.pc = "send_jsonl",
                   !.head = WNoReply,
                   !.cooldowns = IF CooldownTrigger(res.ev.status, w.aggressive)
                                   THEN Append(@, CooldownCall) ELSE @,
                   !.ev = Annotated(Scored(res.ev)),
                   !.scoreCalls = @ + 1]
    ELSE IF w.attempt >= MaxRetries(w.retries)
      THEN [w EXCEPT !.pc = "done", !.head = WNoReply, !.ret = "None"]
      ELSE [w EXCEPT !.pc = "head", !.head = WNoReply,
                     !.attempt = @ + 1, !.sleeps = @ + 1]

\* The future is polled: acquire is granted, the loop starts, the HEAD goes out.
WkEnter ==
  /\ wk.pc = "call"
  /\ wk' = [wk EXCEPT !.pc = "head", !.attempt = 1]
  /\ UNCHANGED <<pipelineVars, rt, rs, sc>>

\* The HEAD request resolves.
WkHead ==
  /\ wk.pc = "head"
  /\ \E h \in HeadReplies :
       wk' = IF NeedGet(Plain(h))
               THEN [wk EXCEPT !.pc = "get", !.head = h]
               ELSE [WkLoop(wk, InnerResult(RawEvent(wk.url, h, WNoReply)))
                       EXCEPT !.exch = Exchange(wk, h, FALSE, WNoReply)]
  /\ UNCHANGED <<pipelineVars, rt, rs, sc>>

\* The partial GET resolves. A panic in probe_url_inner unwinds through the
\* worker future and run_scan, which polls it.
WkGet ==
  /\ wk.pc = "get"
  /\ \E g \in GetReplies :
       wk' = IF SamplePanics(wk.head, g)
               THEN [wk EXCEPT !.pc = "panicked", !.head = WNoReply,
                               !.exch = Exchange(wk, wk.head, TRUE, g)]
               ELSE [WkLoop(wk, InnerResult(RawEvent(wk.url, wk.head, g)))
                       EXCEPT !.exch = Exchange(wk, wk.head, TRUE, g)]
  /\ UNCHANGED <<pipelineVars, rt, rs, sc>>

\* let _ = tx.send(ev.clone()).await: the channel takes the clone unless its
\* receiver is gone.
WkSend(w, s) ==
  IF w.gone[s] THEN w.out ELSE [w.out EXCEPT ![s] = Append(@, w.ev)]

WkSendJsonl ==
  /\ wk.pc = "send_jsonl"
  /\ wk' = [wk EXCEPT !.pc = "send_csv", !.out = WkSend(wk, "jsonl")]
  /\ UNCHANGED <<pipelineVars, rt, rs, sc>>

\* The second send, then Some(ev).
WkSendCsv ==
  /\ wk.pc = "send_csv"
  /\ wk' = [wk EXCEPT !.pc = "done", !.out = WkSend(wk, "csv"), !.ret = "Some"]
  /\ UNCHANGED <<pipelineVars, rt, rs, sc>>

\* The scan timeout drops the future at the await it is suspended in.
WkDropped ==
  /\ wk.pc \in {"head", "get", "send_jsonl", "send_csv"}
  /\ wk' = [wk EXCEPT !.pc = "dropped"]
  /\ UNCHANGED <<pipelineVars, rt, rs, sc>>

NextWorker ==
  WkEnter \/ WkHead \/ WkGet \/ WkSendJsonl \/ WkSendCsv \/ WkDropped

SpecWorker == InitWorker /\ [][NextWorker]_vars

\* ----------------------------------------------------- the scorer, isolated
\* score_event as a function of any RawEvent, called by two workers that hold
\* the same outcome.

\* Largest number of score_event calls followed.
MaxScoreCalls == 3

\* Statuses of the outcomes scored here: unreachable, one of each tier.
ScoreStatuses == {0, 200, 301, 403, 404, 500}
ScoreSamples == {"none", "parsed", "sample"}

\* The arguments score_event is called with: any RawEvent, whether or not the
\* prober and the filter can produce it.
ScoreInputs ==
  [url : Urls, status : ScoreStatuses, content_type : CTypes,
   json_sample : ScoreSamples, score : {0}, notes : {{}}]

ScoreCallers == {1, 2}

InitScore ==
  /\ PipelineInit(IdleRun)
  /\ rt = RetryOff /\ wk = WorkerOff /\ rs = ResumeOff
  /\ \E e \in ScoreInputs :
       sc = [pc |-> "on", given |-> e, ev |-> [w \in ScoreCallers |-> e],
             log |-> <<>>]

\* score_event(&ev) by worker w: the argument is a shared reference, the
\* return value is all the call leaves behind.
ScCall(w) ==
  /\ sc.pc = "on" /\ Len(sc.log) < MaxScoreCalls
  /\ sc' = [sc EXCEPT !.log = Append(@, [by |-> w, arg |-> sc.ev[w],
                                        ret |-> ScoreEvent(sc.ev[w])])]
  /\ UNCHANGED <<pipelineVars, rt, wk, rs>>

\* ev.score = score_event(&ev) in worker w, once.
ScAssign(w) ==
  /\ sc.pc = "on" /\ sc.ev[w].score = 0
  /\ sc' = [sc EXCEPT !.ev[w] = Scored(@)]
  /\ UNCHANGED <<pipelineVars, rt, wk, rs>>

NextScore == \E w \in ScoreCallers : ScCall(w) \/ ScAssign(w)

SpecScore == InitScore /\ [][NextScore]_vars

\* ------------------------------------------------------ resume, isolated
\* A finished run's artifacts and run_scan called again with --resume on the
\* line-delimited file that run wrote.

\* Largest number of outcomes of the original run.
MaxOutcomes == 2

\* content_type: None, Some(""), Some("application/json").
\* json_sample: None, Some(Value::Null), Some(object).
ResumeEvents(n) ==
  [1..n -> [content_type : {"none", "empty", "json"},
            json_sample : {"none", "null", "object"}]]

\* The RawEvent of the i-th outcome.
ResumeEvent(i, shape) ==
  [url |-> i, status |-> 200, content_type |-> shape.content_type,
   json_sample |-> shape.json_sample, score |-> 5]

\* serde_json::to_string(&RawEvent): an Option is null or its value, and a
\* Value::Null sample is null as well.
ToLine(ev) ==
  [url |-> ev.url, status |-> ev.status, score |-> ev.score,
   content_type |-> IF ev.content_type = "none" THEN "null"
                    ELSE IF ev.content_type = "empty" THEN "\"\""
                    ELSE "\"application/json\"",
   json_sample |-> IF ev.json_sample = "object" THEN "{..}" ELSE "null"]

\* serde_json::from_str::<RawEvent>(line): null is None.
FromLine(line) ==
  [url |-> line.url, status |-> line.status, score |-> line.score,
   content_type |-> IF line.content_type = "null" THEN "none"
                    ELSE IF line.content_type = "\"\"" THEN "empty"
                    ELSE "json",
   json_sample |-> IF line.json_sample = "null" THEN "none" ELSE "object"]

\* One record of write_csv: score, status, final_url, orig_url and
\* content_type.unwrap_or_default().
SortedRow(ev) ==
  <<ev.score, ev.status, ev.url, ev.url,
    IF ev.content_type = "json" THEN "application/json" ELSE "">>

\* write_csv(path, items): File::create truncates, one record per item.
WriteCsv(items) == [i \in 1..Len(items) |-> SortedRow(items[i])]

\* read_jsonl: every non-blank line parsed, in order.
ReadJsonl(lines) == [i \in 1..Len(lines) |-> FromLine(lines[i])]

\* write_jsonl(path, items): appended to what the file holds.
WriteJsonl(old, items) ==
  (IF old = "missing" THEN <<>> ELSE old)
    \o [i \in 1..Len(items) |-> ToLine(items[i])]

\* Where --resume points: outside the output directory, a file inside it, or
\* the directory's own target_raw.jsonl.
ResumePlaces == {"outside", "inside", "same"}

\* The two run_scan that take --resume: runner.rs cleans the output directory
\* first, main.rs does not.
ResumeEntries == {"runner", "main"}

\* The original run about to probe, the resume file's place and the entry
\* point the resume will go through.
ResumeStart(todo, place, entry) ==
  [pc |-> "run", todo |-> todo, place |-> place, entry |-> entry,
   raw |-> <<>>, results |-> <<>>, sorted |-> "missing",
   cut |-> FALSE, lost |-> FALSE,
   loaded |-> <<>>, out_raw |-> "missing", out_sorted |-> "missing"]

InitResume ==
  /\ PipelineInit(IdleRun)
  /\ rt = RetryOff /\ wk = WorkerOff /\ sc = ScoreOff
  /\ \E n \in 0..MaxOutcomes, place \in ResumePlaces, entry \in ResumeEntries :
       \E shapes \in ResumeEvents(n) :
         rs = ResumeStart([i \in 1..n |-> ResumeEvent(i, shapes[i])],
                          place, entry)

\* One outcome of the original run: the line-delimited sink writes its line
\* or not (open or write failure, drain wait elapsed), and the worker returns
\* it to results or is dropped by the deadline first, with everything queued
\* behind it.
RsOutcome ==
  /\ rs.pc = "run" /\ rs.todo # <<>>
  /\ \E wrote, pushed \in BOOLEAN :
       rs' = [rs EXCEPT
                !.raw = IF wrote THEN Append(@, ToLine(Head(rs.todo))) ELSE @,
                !.lost = @ \/ (pushed /\ ~wrote),
                !.results = IF pushed THEN Append(@, Head(rs.todo)) ELSE @,
                !.cut = @ \/ ~pushed,
                !.todo = IF pushed THEN Tail(@) ELSE <<>>]
  /\ UNCHANGED <<pipelineVars, rt, wk, sc>>

\* The original run writes target_apis_sorted.csv from results and returns.
RsReport ==
  /\ rs.pc = "run" /\ rs.todo = <<>>
  /\ rs' = [rs EXCEPT !.pc = "ran", !.sorted = WriteCsv(rs.results)]
  /\ UNCHANGED <<pipelineVars, rt, wk, sc>>

\* run_scan with --resume: ensure_dir, and in runner.rs cleanup_results, come
\* first; cleanup_results removes every file of the output directory.
RsCleanup ==
  /\ rs.pc = "ran"
  /\ rs' = [rs EXCEPT !.pc = "cleaned",
                      !.raw = IF rs.entry = "runner" /\ rs.place # "outside"
                                THEN "missing" ELSE @]
  /\ UNCHANGED <<pipelineVars, rt, wk, sc>>

\* read_jsonl(resume_path)?: a missing file is an Err and run_scan returns it.
RsRead ==
  /\ rs.pc = "cleaned"
  /\ rs' = IF rs.raw = "missing"
             THEN [rs EXCEPT !.pc = "failed"]
             ELSE [rs EXCEPT !.pc = "loaded", !.loaded = ReadJsonl(rs.raw)]
  /\ UNCHANGED <<pipelineVars, rt, wk, sc>>

\* write_jsonl, write_csv (and write_top_txt), then return Ok. When the
\* resume file is the output directory's target_raw.jsonl, write_jsonl appends
\* to the file that was just read.
RsWrite ==
  /\ rs.pc = "loaded"
  /\ LET old == IF rs.place = "same" THEN rs.raw ELSE rs.out_raw
         new == WriteJsonl(old, rs.loaded)
     IN  rs' = [rs EXCEPT !.pc = "resumed",
                          !.out_raw = new,
                          !.raw = IF rs.place = "same" THEN new ELSE @,
                          !.out_sorted = WriteCsv(rs.loaded)]
  /\ UNCHANGED <<pipelineVars, rt, wk, sc>>

NextResume == RsOutcome \/ RsReport \/ RsCleanup \/ RsRead \/ RsWrite

SpecResume == InitResume /\ [][NextResume]_vars

\* ================================================================= claims
HeldGlobal == Cardinality({c \in Cands : HoldsGlobal(c)})
HeldOn(h) == Cardinality({c \in Cands : HoldsHost(c) /\ HostOf(c) = h})
\* The capacity the host is meant to have: the reduced one from the return of
\* cool_down_host until a restoration fires, else the default.
CurrentCapacity(h) == IF cooled[h] THEN CooldownLimit ELSE cfg.per_host
Probed(c) == status[c] >= 0
Written(s, c) == file[s][c]

\* C1: in every reachable state, for every host, the permits granted by
\* acquire(host) and not yet released do not exceed the host's current
\* capacity (the reduced capacity while a cooldown is in force).
C1_PerHostAdmission == \A h \in Hosts : HeldOn(h) <= CurrentCapacity(h)

\* C2: the workers holding a global permit never outnumber the global limit,
\* the stream never runs more than that many futures at once, and with
\* concurrency = 1 and per-host = 1 at most one probe is in flight.
C2_GlobalAdmission ==
  /\ HeldGlobal <= cfg.concurrency
  /\ Cardinality(InProgress) <= cfg.concurrency
  /\ (cfg.concurrency = 1 /\ cfg.per_host = 1)
       => Cardinality({c \in Cands : pc[c] \in {"head", "get"}}) <= 1
\* The limit is reached on two hosts at once while a candidate still queues.
C2_Witness ==
  /\ cfg.concurrency = 2
  /\ \E c, d \in Cands : /\ HostOf(c) # HostOf(d)
                         /\ HoldsHost(c) /\ HoldsHost(d)
  /\ GlobalAvail = 0

\* C3: a candidate whose every exchange failed at the network level has been
\* attempted max_retries times (3 with retries = 3), is reported as a failure
\* and dropped: it is never sent to a sink nor added to the results.
C3_TransientFailureDropped ==
  \A c \in Cands :
    status[c] = 0 =>
      /\ attempts[c] = MaxRetries(cfg.retries)
      /\ pc[c] \notin {"send_jsonl", "send_csv"}
      /\ \A s \in Sinks : c \notin sent[s]
      /\ results[c] = 0

\* C4: from the return of cool_down_host(host, r, d) until a restoration
\* fires, the semaphore an acquire(host) that starts now is admitted against
\* has r permits.
C4_CooldownImmediate ==
  \A h \in Hosts :
    cooled[h] => GetHostSemaphore(per_host, h, 0).sem.cap = CooldownLimit

\* C5 (as claimed): if the stream finished before the deadline, then at Done
\* each sink has written exactly one data record per probed candidate.
C5_Original ==
  (phase = "Done" /\ cut = "completed") =>
    \A s \in Sinks : \A c \in Cands :
      Written(s, c) = IF Probed(c) THEN 1 ELSE 0
\* C5 (amended): if the stream finished before the deadline, every sink that
\* opened its file, had no write fail and has terminated has written exactly
\* one data record per probed candidate.
C5_SinkCompleteness ==
  \A s \in Sinks :
    (cut = "completed" /\ sink[s] = "done" /\ ~wrErr[s]) =>
      \A c \in Cands : Written(s, c) = IF Probed(c) THEN 1 ELSE 0
\* The longest list completes and both sinks end with a record of each.
C5_Witness ==
  /\ phase = "Done" /\ cut = "completed" /\ cfg.n = NumCands
  /\ \A s \in Sinks : sink[s] = "done" /\ \A c \in Cands : Written(s, c) = 1

AfterCut ==
  /\ pc' = pc /\ attempts' = attempts /\ status' = status
  /\ sent' = sent /\ results' = results
  /\ \A s \in Sinks : Len(chan'[s]) <= Len(chan[s])
\* C7 (as claimed, its last part): after the deadline every outcome sent to a
\* sink is in the artifact once the sink task has ended.
C7_Original ==
  \A s \in Sinks :
    (cut = "deadline" /\ SinkEnded(s)) => \A c \in sent[s] : Written(s, c) >= 1
\* C7 (amended): once the deadline has fired no candidate is started or probed
\* and nothing more is sent to a sink; every outcome sent before it is in the
\* artifact once the sink, having opened its file and with no write failed,
\* has terminated.
C7_HardCutoff ==
  /\ [][cut = "deadline" => AfterCut]_vars
  /\ [](\A s \in Sinks :
          (cut = "deadline" /\ sink[s] = "done" /\ ~wrErr[s]) =>
            \A c \in sent[s] : Written(s, c) = 1)
\* The deadline cut a run with a worker in flight, one candidate never started
\* and an outcome already sent, which the sink has since written.
C7_Witness ==
  /\ cut = "deadline"
  /\ \E c \in Cands : pc[c] = "abandoned" /\ attempts[c] = 0
  /\ \E c \in Cands : pc[c] = "abandoned" /\ attempts[c] = 1
  /\ \E s \in Sinks : sink[s] = "done" /\ ~wrErr[s] /\ sent[s] # {}

\* C8 (as claimed): a sink task never ends while its channel is open or
\* non-empty, and has written every item it was sent.
C8_Original ==
  \A s \in Sinks :
    SinkEnded(s) =>
      /\ txHolders = {} /\ chan[s] = <<>>
      /\ \A c \in sent[s] : Written(s, c) = 1
\* C8 (amended): after the stream ends no sender is left; a sink that opened
\* its file ends only with the channel closed and empty, having taken every
\* item and written each one whose write did not fail; the orchestrator is
\* Done only after both sinks ended or its drain timeout fired.
C8_ShutdownDrain ==
  /\ phase # "Probing" => txHolders = {}
  /\ \A s \in Sinks :
       sink[s] = "done" =>
         /\ txHolders = {} /\ chan[s] = <<>>
         /\ ~wrErr[s] => \A c \in sent[s] : Written(s, c) = 1
  /\ phase = "Done" => (drain = "timeout" \/ \A s \in Sinks : SinkEnded(s))
\* The drain was joined, with a sink that wrote what was buffered at shutdown.
C8_Witness ==
  /\ phase = "Done" /\ drain = "joined"
  /\ \E s \in Sinks : sink[s] = "done" /\ \E c \in Cands : Written(s, c) = 1

\* C9 (as claimed): 1 <= attempts <= min(configured retries, 10).
C9_Original ==
  rt.pc \notin {"off", "call"} => (rt.attempt >= 1 /\ rt.attempt <= Min(rt.cli, RetryCap))
\* C9 (amended): 1 <= attempts <= max(1, min(configured retries, 10)).
C9_RetryBound ==
  rt.pc \notin {"off", "call"} =>
    (rt.attempt >= 1 /\ rt.attempt <= Max(1, Min(rt.cli, RetryCap)))
\* A configured value above the cap: the tenth attempt fails and ends the loop.
C9_Witness == rt.pc = "err" /\ rt.cli > RetryCap /\ rt.attempt = RetryCap

\* C10: each sleep delay is at most backoff_max and at least the previous
\* delay, and the delay of a sleep in progress is min(backoff, backoff_max).
C10_BackoffMonotone ==
  /\ \A i \in 1..Len(rt.delays) :
       /\ rt.delays[i] <= rt.b_max
       /\ i > 1 => rt.delays[i] >= rt.delays[i - 1]
  /\ rt.pc = "sleeping" =>
       rt.delays[Len(rt.delays)] = Min(rt.backoff, rt.b_max)
\* Delays that grew, reached the cap and stayed there after the doubling
\* saturated.
C10_Witness ==
  /\ Len(rt.delays) >= 4
  /\ rt.delays[1] < rt.delays[2]
  /\ rt.delays[Len(rt.delays)] = rt.b_max
  /\ rt.backoff = WordMax

\* C11: every item a sink channel received carries the result of score_event,
\* which is never the placeholder 0, and the scorer ran exactly once for it.
C11_ScoreBeforePersist ==
  \A s \in Sinks : \A i \in 1..Len(wk.out[s]) :
    /\ wk.out[s][i].score = ScoreEvent(wk.out[s][i])
    /\ wk.out[s][i].score # 0
    /\ wk.scoreCalls = 1
\* A 5xx answer on a keyword URL reached both channels with score 5.
C11_Witness ==
  /\ wk.pc = "done"
  /\ \A s \in Sinks : Len(wk.out[s]) = 1 /\ wk.out[s][1].score = 5
  /\ wk.ev.status = 500 /\ wk.ev.url.keyword

C13_CooldownRestoration ==
  \A h \in Hosts :
    (\A t \in coolTasks : t.host # h) =>
      GetHostSemaphore(per_host, h, 0).sem.cap = cfg.per_host
\* A 429 cooled the host down, the restoration ran, and two permits of the
\* default capacity are held again.
C13_Witness ==
  /\ coolTasks = {} /\ ~cfg.aggressive /\ cfg.per_host = 2
  /\ \E c \in Cands : status[c] = 429 /\ HostOf(c) = "h1"
  /\ HeldOn("h1") = 2

\* C14: workers that looked a host up hold the same semaphore, whichever of
\* them created it, and together hold at most the default per-host limit.
C14_LazyHostState ==
  /\ \A c, d \in Cands :
       (hostSem[c] # NoSem /\ hostSem[d] # NoSem /\ HostOf(c) = HostOf(d))
         => hostSem[c] = hostSem[d]
  /\ \A h \in Hosts : HeldOn(h) <= cfg.per_host
\* Two workers started on a host without an entry; both hold a permit of the
\* semaphore the first one created.
C14_Witness ==
  \E c, d \in Cands :
    /\ c # d /\ HostOf(c) = HostOf(d)
    /\ HoldsHost(c) /\ HoldsHost(d)
    /\ hostSem[c].by = c /\ hostSem[d].by = c

\* C16: an outcome whose worker is blocked sending to one sink, the channel
\* being full, has been received by the other sink.
C16_SinkIndependence ==
  \A c \in Cands :
    /\ (pc[c] = "send_jsonl" /\ ~CanSend("jsonl")) => c \in sent["csv"]
    /\ (pc[c] = "send_csv" /\ ~CanSend("csv")) => c \in sent["jsonl"]

\* C18: a worker whose probe is in flight holds one global slot and one slot
\* of its host's semaphore; before the grant and after the release it holds
\* neither; no semaphore is overdrawn; with no permit alive and no acquire
\* under way every slot is available again.
C18_PermitConservation ==
  /\ \A c \in Cands :
       /\ pc[c] \in {"head", "get"} =>
            /\ HoldsGlobal(c) /\ HoldsHost(c)
            /\ hostSem[c] # NoSem /\ hostSem[c] = per_host[HostOf(c)]
       /\ pc[c] \in {"none", "queued", "wait_global", "send_jsonl", "send_csv",
                     "done", "abandoned"} =>
            ~HoldsGlobal(c) /\ ~HoldsHost(c)
  /\ GlobalAvail >= 0
  /\ \A h \in Hosts : per_host[h] # NoSem => SemAvail(per_host[h]) >= 0
  /\ (\A c \in Cands : pc[c] \notin {"wait_host", "head", "get"}) =>
       /\ GlobalAvail = cfg.concurrency
       /\ \A h \in Hosts :
            per_host[h] # NoSem => SemAvail(per_host[h]) = per_host[h].cap
\* The deadline dropped a worker in mid-probe, with its permit, and another
\* candidate that held none; every slot is free again.
C18_Witness ==
  /\ cut = "deadline"
  /\ \E c, d \in Cands :
       /\ c # d /\ pc[c] = "abandoned" /\ pc[d] = "abandoned"
       /\ attempts[c] = 1 /\ status[c] = -1
       /\ attempts[d] = 0 /\ hostSem[d] = NoSem
  /\ GlobalAvail = cfg.concurrency
  /\ SemAvail(per_host["h1"]) = per_host["h1"].cap

\* C20: a sink whose open or write failed blocks no worker and keeps nothing
\* queued once its task has ended; the other sink, having terminated without
\* a failure of its own after a completed stream, has written every outcome;
\* and the scan still gets past the drain.
C20_SinkFailureIsolation ==
  /\ [](\A s \in Sinks :
          (sink[s] = "failed" \/ wrErr[s]) =>
            /\ sink[s] = "failed" =>
                 /\ chan[s] = <<>>
                 /\ CanSend(s)
            /\ \A t \in Sinks \ {s} :
                 (cut = "completed" /\ sink[t] = "done" /\ ~wrErr[t]) =>
                   \A c \in Cands : Written(t, c) = IF Probed(c) THEN 1 ELSE 0)
  /\ []((\E s \in Sinks : sink[s] = "failed" \/ wrErr[s]) => <>DrainOver)
\* The jsonl sink could not open its file; the run completed and the csv sink
\* wrote both outcomes.
C20_Witness ==
  /\ phase = "Done" /\ cut = "completed" /\ drain = "joined"
  /\ sink["jsonl"] = "failed" /\ sink["csv"] = "done"
  /\ cfg.n = 2 /\ \A c \in 1..2 : Written("csv", c) = 1 /\ Written("jsonl", c) = 0

\* C15: a worker suspended in acquire, for the global slot or for the host
\* slot, is eventually granted its permit and probes, unless the scan deadline
\* drops it first.
C15_AcquireLiveness ==
  \A c \in Cands :
    (pc[c] \in {"wait_global", "wait_host"})
      ~> (pc[c] \in {"head", "get"} \/ pc[c] = "abandoned")
\* One worker waits for the host slot with the global slot in hand, another
\* holds the only host slot, and the global limit is exhausted.
C15_Witness ==
  /\ cfg.per_host = 1 /\ cfg.concurrency = 2 /\ GlobalAvail = 0
  /\ \E c, d \in Cands :
       /\ pc[c] = "wait_host" /\ pc[d] \in {"head", "get"}
       /\ hostSem[c] = hostSem[d]

\* C19: for a run that completed and whose line-delimited sink wrote every
\* outcome, resuming from the file it wrote ends with a tabular file holding
\* the same set of rows as the run's own.
C19_ResumeRoundTrip ==
  (rs.pc \in {"resumed", "failed"} /\ ~rs.cut /\ ~rs.lost) =>
    /\ rs.pc = "resumed"
    /\ Range(rs.out_sorted) = Range(rs.sorted)

\* C30: resume never fails on its own input, and once it has returned the
\* line-delimited artifact holds every record of the resume file exactly once.
C30_ResumeKeepsInput ==
  /\ rs.pc # "failed"
  /\ rs.pc = "resumed" =>
       \A i \in 1..Len(rs.loaded) :
         Cardinality({j \in 1..Len(rs.out_raw) :
                        rs.out_raw[j] = ToLine(rs.loaded[i])}) = 1

\* C22: a scored outcome with a 2xx status and no static extension has score 1
\* whenever its content type is JSON or its sample is parsed JSON, and an
\* outcome whose sample only wraps text that is not JSON, with no JSON content
\* type, does not have score 1.
C22_TopTier ==
  (wk.ev # NoEvent /\ wk.ev.status >= 200 /\ wk.ev.status < 300
     /\ ~EndsStatic(wk.ev.url)) =>
    /\ (wk.ev.content_type = "json" \/ wk.ev.json_sample = "parsed")
         => wk.ev.score = 1
    /\ (wk.ev.json_sample = "sample" /\ wk.ev.content_type # "json")
         => wk.ev.score # 1

\* C23: every call on an outcome whose URL path ends in a static extension
\* returned 99, and no call on any other outcome returned 99 or more.
C23_StaticOverride ==
  \A i \in 1..Len(sc.log) :
    IF sc.log[i].arg.url.ext THEN sc.log[i].ret = 99 ELSE sc.log[i].ret < 99

\* C24 as stated: on a URL that does not end in a static extension, a call on
\* an outcome with a keyword returned exactly one less than score_event gives
\* the same outcome without the keyword.
C24_Original ==
  \A i \in 1..Len(sc.log) :
    LET a == sc.log[i].arg
    IN (a.url.keyword /\ ~EndsStatic(a.url)) =>
         sc.log[i].ret = ScoreEvent([a EXCEPT !.url.keyword = FALSE]) - 1

\* C24: on a URL that does not end in a static extension, a call on an outcome
\* with a keyword returned one less than score_event gives the same outcome
\* without the keyword, status tiers included, but never less than 1.
C24_KeywordPromotion ==
  \A i \in 1..Len(sc.log) :
    LET a == sc.log[i].arg
        base == ScoreEvent([a EXCEPT !.url.keyword = FALSE])
    IN (a.url.keyword /\ ~EndsStatic(a.url)) =>
         sc.log[i].ret = IF base = 1 THEN 1 ELSE base - 1
\* A top-tier outcome on a keyword URL was scored and stayed at 1.
C24_Witness ==
  /\ Len(sc.log) >= 1
  /\ sc.given.url.keyword /\ ~EndsStatic(sc.given.url)
  /\ sc.given.status = 200 /\ sc.given.content_type = "json"
  /\ sc.log[1].ret = 1

C26_Escalation ==
  LET Escalates(h) == ~h.ok \/ h.status \in {405, 501} \/ h.ctype = "none"
      x == wk.exch
  IN /\ wk.pc = "get" => Escalates(wk.head)
     /\ (x.n > 0 /\ wk.pc # "panicked") =>
          /\ wk.ev # NoEvent
          /\ x.issued \/ ~Escalates(x.head)
          /\ IF x.issued /\ x.get.ok
               THEN /\ wk.ev.status = x.get.status
                    /\ wk.ev.content_type = x.get.ctype
                    /\ (wk.ev.json_sample # "none") = (x.get.body # "none")
                    /\ wk.ev.is_graphql = (x.get.body = "graphql")
               ELSE /\ wk.ev.status = (IF x.head.ok THEN x.head.status ELSE 0)
                    /\ wk.ev.content_type = x.head.ctype
                    /\ wk.ev.json_sample = "none"
                    /\ ~wk.ev.is_graphql
\* A HEAD answered 405 with a content type, the GET failed, and the outcome
\* kept 405 and that content type without a sample.
C26_Witness ==
  /\ wk.exch.issued /\ ~wk.exch.get.ok
  /\ wk.exch.head.ok /\ wk.exch.head.status = 405 /\ wk.exch.head.ctype = "html"
  /\ wk.ev # NoEvent /\ wk.ev.status = 405 /\ wk.ev.content_type = "html"

\* C27: after an exchange in which neither the HEAD nor the GET answered the
\* worker has an outcome with status 0 and no content type, from the first
\* attempt and without sleep or cooldown; the outcome is scored, and once the
\* worker is done every sink whose receiver is there has been sent it and the
\* worker returned it.
C27_UnreachableOutcome ==
  (wk.exch.issued /\ ~wk.exch.head.ok /\ ~wk.exch.get.ok) =>
    /\ wk.ev # NoEvent
    /\ wk.ev.status = 0 /\ wk.ev.content_type = "none"
    /\ wk.exch.n = 1 /\ wk.attempt = 1 /\ wk.sleeps = 0
    /\ wk.cooldowns = <<>>
    /\ wk.scoreCalls = 1 /\ wk.ev.score = ScoreEvent(wk.ev)
    /\ wk.pc \in {"send_jsonl", "send_csv", "done", "dropped"}
    /\ wk.pc = "done" =>
         /\ wk.ret = "Some"
         /\ \A s \in Sinks : wk.out[s] = IF wk.gone[s] THEN <<>> ELSE <<wk.ev>>
\* An unreachable candidate's outcome reached both channels with score 5.
C27_Witness ==
  /\ wk.exch.issued /\ ~wk.exch.head.ok /\ ~wk.exch.get.ok
  /\ wk.pc = "done" /\ wk.ev.status = 0 /\ wk.ev.score = 5
  /\ \A s \in Sinks : wk.out[s] = <<wk.ev>>

\* C21: run_scan never returns an error once the sinks are spawned, and when
\* it has returned after a drain that joined both sinks, the file of each sink
\* exists beside the sorted report.
C21_ArtifactsAlways ==
  /\ phase # "Failed"
  /\ (phase = "Reported" /\ drain = "joined") =>
       \A s \in Sinks : sink[s] = "done"

\* C28 as stated: every candidate in the aggregate list was sent to the
\* tabular sink, every candidate sent to the tabular sink was sent to the
\* line-delimited one unless that sink's receiver is gone, and no candidate
\* is in the list, in a channel or in a file more than once.
C28_Original ==
  /\ \A c \in Cands : results[c] >= 1 => c \in sent["csv"]
  /\ \A c \in sent["csv"] : c \in sent["jsonl"] \/ ReceiverGone("jsonl")
  /\ \A c \in Cands : results[c] <= 1
  /\ \A s \in Sinks, c \in Cands :
       file[s][c] + Cardinality({i \in 1..Len(chan[s]) : chan[s][i] = c}) <= 1

\* C28: every candidate in the aggregate list went through the send to the
\* tabular sink, which queued it unless that sink's receiver is gone; every
\* candidate that went through the tabular send went through the
\* line-delimited send before, which queued it unless that receiver is gone;
\* and no candidate is in the list, in a channel or in a file more than once.
C28_FanOutOrder ==
  /\ \A c \in Cands :
       results[c] >= 1 =>
         /\ pc[c] = "done"
         /\ c \in sent["csv"] \/ ReceiverGone("csv")
  /\ \A c \in Cands :
       (pc[c] = "done" \/ c \in sent["csv"]) =>
         c \in sent["jsonl"] \/ ReceiverGone("jsonl")
  /\ \A c \in Cands : pc[c] = "send_csv" =>
       c \in sent["jsonl"] \/ ReceiverGone("jsonl")
  /\ \A c \in Cands : results[c] <= 1
  /\ \A s \in Sinks, c \in Cands :
       file[s][c] + Cardinality({i \in 1..Len(chan[s]) : chan[s][i] = c}) <= 1
\* After a deadline cut one candidate is in the list and was queued for both
\* sinks, one was queued for the line-delimited sink only, and one is in the
\* list although the tabular sink, whose open failed, never got it.
C28_Witness ==
  /\ cut = "deadline"
  /\ \E c, d \in Cands :
       /\ results[c] = 1 /\ c \in sent["jsonl"] /\ c \notin sent["csv"]
       /\ results[d] = 0 /\ d \in sent["jsonl"] /\ pc[d] = "abandoned"
  /\ sink["csv"] = "failed"

\* C29: a worker whose probe is in flight owns a slot of the global semaphore
\* and of its host's semaphore and is in its first attempt; a worker at one of
\* the two sends, blocked on a full channel or not, has had its probe return
\* and owns no slot, so that with every started worker at a send all slots of
\* every semaphore are free.
C29_PermitScope ==
  /\ \A c \in Cands :
       /\ pc[c] \in {"head", "get"} =>
            /\ hostSem[c] # NoSem /\ status[c] = -1 /\ attempts[c] = 1
            /\ GlobalAvail < cfg.concurrency
            /\ SemAvail(hostSem[c]) < hostSem[c].cap
       /\ pc[c] \in {"send_jsonl", "send_csv"} =>
            /\ hostSem[c] = NoSem /\ status[c] # -1 /\ attempts[c] = 1
  /\ (\A c \in Cands : pc[c] \in {"none", "queued", "send_jsonl", "send_csv",
                                     "done"}) =>
       /\ GlobalAvail = cfg.concurrency
       /\ \A h \in Hosts :
            per_host[h] # NoSem => SemAvail(per_host[h]) = per_host[h].cap
\* Two workers are suspended on the full line-delimited channel and every
\* slot is free.
C29_Witness ==
  /\ ~CanSend("jsonl")
  /\ \E c, d \in Cands : c # d /\ pc[c] = "send_jsonl" /\ pc[d] = "send_jsonl"
  /\ GlobalAvail = cfg.concurrency /\ cfg.concurrency >= 2

====
